---- MODULE Spec2Model ----
(***************************************************************************)
(* A model of the GeoData class (src/GeoData/GeoData.py): the in-memory    *)
(* data set of named fields over locations and time intervals, and its     *)
(* operations timerepair, timeregister, add_times, timeslice, interpolate, *)
(* datareducelocation, changedata and the == / != operators.               *)
(*                                                                         *)
(* Representation.                                                         *)
(*  - A numpy array is a record [shape, v]: shape is the tuple of axis     *)
(*    lengths and v the nested sequences of its elements (1-based here,    *)
(*    0-based in the source; indices that the program handles as data are  *)
(*    kept 0-based and shifted where they are used).                       *)
(*  - A floating point number is an integer; not-a-number is the value     *)
(*    NaN, which no arithmetic of the model produces.  Time values are     *)
(*    counted in ticks of 1/TicksPerUnit of the unit of time so that the   *)
(*    mean of the differences taken by timerepair is exact.                *)
(*  - A dict is a sequence of [name, arr] records in insertion order.      *)
(***************************************************************************)
EXTENDS Integers, Sequences, FiniteSets, TLC

VARIABLES gd, last

vars == <<gd, last>>

(***************************************************************************)
(* Bounds of the model.                                                    *)
(***************************************************************************)
\* longest raw array of instants handed to timerepair
MaxLen == 3
\* largest raw time value, in units of time
MaxTime == 2
\* most rows of an interval table (add_times is not called beyond it)
MaxRows == 2
\* most operations applied in a row to the data sets of specification Spec
MaxSteps == 2

(***************************************************************************)
(* Numbers.                                                                *)
(***************************************************************************)
\* np.nan
NaN == -1000000

isnan(x) == x = NaN

\* the == of two floats: false as soon as one of them is not-a-number
feq(x, y) == ~isnan(x) /\ ~isnan(y) /\ x = y

RECURSIVE Fact(_)
Fact(n) == IF n <= 1 THEN 1 ELSE n * Fact(n - 1)

\* ticks per unit of time: every divisor N-1 of a mean divides it
TicksPerUnit == Fact(MaxLen - 1)

RECURSIVE SumSeq(_)
SumSeq(s) == IF s = <<>> THEN 0 ELSE Head(s) + SumSeq(Tail(s))

(***************************************************************************)
(* Arrays.                                                                 *)
(***************************************************************************)
Arr1(s) == [shape |-> <<Len(s)>>, v |-> s]

\* a 2-axis array from its rows, each of ncol elements
Arr2(rows, ncol) == [shape |-> <<Len(rows), ncol>>, v |-> rows]

ndim(a) == Len(a.shape)

RECURSIVE Flatten(_)
Flatten(rows) == IF rows = <<>> THEN <<>> ELSE Head(rows) \o Flatten(Tail(rows))

\* a.ravel() of a 2-axis array
ravel(a) == Arr1(Flatten(a.v))

\* np.diff of a 1-axis array
diff(s) == [i \in 1..(Len(s) - 1) |-> s[i + 1] - s[i]]

\* np.roll(s, -1)
roll(s) == [i \in 1..Len(s) |-> s[(i % Len(s)) + 1]]

(***************************************************************************)
(* timerepair: a raw time array to the (N,2) table of [start, end].        *)
(***************************************************************************)
\* a slip: the last end is taken from the start before the last one
instants2table_prev(s) ==
    LET N       == Len(s)
        avdiff  == SumSeq(diff(s)) \div (N - 1)
        timear2 == roll(s)
        ends    == [timear2 EXCEPT ![N] = s[N - 1] + avdiff]
    IN  Arr2([i \in 1..N |-> <<s[i], ends[i]>>], 2)

\* the table for N >= 2 instants (GeoData.py lines 420-423)
instants2table(s) ==
    LET N       == Len(s)
        avdiff  == SumSeq(diff(s)) \div (N - 1)
        timear2 == roll(s)
        ends    == [timear2 EXCEPT ![N] = timear2[N - 1] + avdiff]
    IN  Arr2([i \in 1..N |-> <<s[i], ends[i]>>], 2)

timerepair(timear) ==
    IF ndim(timear) = 2 /\ timear.shape[2] = 2
    THEN timear
    ELSE LET flat == IF ndim(timear) = 2 THEN ravel(timear) ELSE timear
         IN  IF flat.shape[1] = 1
             THEN Arr2(<< <<flat.v[1], flat.v[1] + 60 * TicksPerUnit>> >>, 2)
             ELSE instants2table(flat.v)

(***************************************************************************)
(* Element access and broadcasting (numpy's rules for a binary ufunc).     *)
(***************************************************************************)
Max(a, b) == IF a >= b THEN a ELSE b

\* a's element at the 1-based index tuple idx (one entry per axis)
at(a, idx) ==
    CASE ndim(a) = 1 -> a.v[idx[1]]
      [] ndim(a) = 2 -> a.v[idx[1]][idx[2]]
      [] ndim(a) = 3 -> a.v[idx[1]][idx[2]][idx[3]]

\* every index tuple of an array of this shape
indices(shape) ==
    {idx \in [1..Len(shape) -> 1..Max(1, SumSeq(shape))] :
        \A k \in 1..Len(shape) : idx[k] <= shape[k]}

\* a shape with leading axes of length 1 up to n axes
padshape(shape, n) == [k \in 1..n |->
    IF k <= n - Len(shape) THEN 1 ELSE shape[k - (n - Len(shape))]]

broadcastable(sa, sb) ==
    LET n == Max(Len(sa), Len(sb))
        pa == padshape(sa, n)
        pb == padshape(sb, n)
    IN  \A k \in 1..n : pa[k] = pb[k] \/ pa[k] = 1 \/ pb[k] = 1

broadcast_shape(sa, sb) ==
    LET n == Max(Len(sa), Len(sb))
        pa == padshape(sa, n)
        pb == padshape(sb, n)
    IN  [k \in 1..n |-> IF pa[k] = 1 THEN pb[k] ELSE pa[k]]

\* a's element at index idx of the broadcast result
bat(a, idx) ==
    LET off == Len(idx) - ndim(a)
    IN  at(a, [k \in 1..ndim(a) |-> IF a.shape[k] = 1 THEN 1 ELSE idx[k + off]])

(***************************************************************************)
(* np.ma.allequal(np.ma.array(x, mask=isnan(x)), np.ma.array(y, ...)):     *)
(* with the default fill_value=True an entry masked in either operand      *)
(* counts as equal; the other entries are compared with ==.  The result    *)
(* is "True", "False", or "ValueError" when the shapes do not broadcast.   *)
(***************************************************************************)
\* a slip: the mask is taken from the left operand alone
mask_left(x, y) == isnan(x)

\* the mask of the comparison: mask_or of the two operands' masks
mask_or(x, y) == isnan(x) \/ isnan(y)

allequal(a, b) ==
    IF ~broadcastable(a.shape, b.shape)
    THEN "ValueError"
    ELSE IF \A idx \in indices(broadcast_shape(a.shape, b.shape)) :
                mask_or(bat(a, idx), bat(b, idx)) \/ feq(bat(a, idx), bat(b, idx))
         THEN "True"
         ELSE "False"

\* the first result of a sequence of checks that is not "True"
RECURSIVE firstbad(_)
firstbad(rs) ==
    IF rs = <<>> THEN "True"
    ELSE IF Head(rs) # "True" THEN Head(rs) ELSE firstbad(Tail(rs))

(***************************************************************************)
(* The data dict.                                                          *)
(***************************************************************************)
\* d.keys(), in insertion order
keys(d) == [i \in 1..Len(d) |-> d[i].name]

keyset(d) == {d[i].name : i \in 1..Len(d)}

\* d[name]
getitem(d, name) == d[CHOOSE i \in 1..Len(d) : d[i].name = name].arr

(***************************************************************************)
(* GeoData.__init__ with a six-tuple: the times are repaired.              *)
(***************************************************************************)
GeoData(data, coordnames, dataloc, sensorloc, times, expdesc) ==
    [data |-> data, coordnames |-> coordnames, dataloc |-> dataloc,
     sensorloc |-> sensorloc, times |-> timerepair(times), expdesc |-> expdesc]

(***************************************************************************)
(* GeoData.__eq__ and __ne__.                                              *)
(***************************************************************************)
__eq__(self, self2) ==
    IF keyset(self.data) # keyset(self2.data) THEN "False"
    ELSE firstbad(
           [i \in 1..Len(self.data) |->
               allequal(self.data[i].arr, getitem(self2.data, self.data[i].name))]
           \o << IF self.coordnames # self2.coordnames THEN "False" ELSE "True",
                 allequal(self.dataloc, self2.dataloc),
                 allequal(self.sensorloc, self2.sensorloc),
                 allequal(self.times, self2.times) >>)

\* not self.__eq__(self2); an exception of __eq__ propagates
__ne__(self, self2) ==
    LET r == __eq__(self, self2)
    IN  CASE r = "True"  -> "False"
          [] r = "False" -> "True"
          [] OTHER       -> r

(***************************************************************************)
(* Indexing and stacking.                                                  *)
(***************************************************************************)
\* a slip: the range runs one past its end
arange_past(a, b) == [i \in 1..Max(0, b - a + 1) |-> a + i - 1]

\* np.arange(a, b): a, a+1, ..., b-1
arange(a, b) == [i \in 1..Max(0, b - a) |-> a + i - 1]

\* every 0-based index of the list is within the axis (1-based axis number)
inbounds(a, axis, idx0) ==
    \A k \in 1..Len(idx0) : idx0[k] >= 0 /\ idx0[k] < a.shape[axis]

pick(s, idx0) == [k \in 1..Len(idx0) |-> s[idx0[k] + 1]]

\* a[idx0] (axis 1), a[:, idx0] (axis 2) with a list of 0-based indices
take(a, axis, idx0) ==
    [shape |-> [a.shape EXCEPT ![axis] = Len(idx0)],
     v     |-> IF axis = 1 THEN pick(a.v, idx0)
               ELSE [i \in 1..a.shape[1] |-> pick(a.v[i], idx0)]]

\* np.hstack and np.vstack accept the pair: same number of axes, and the
\* axes that are not joined agree
stackable(a, b, axis) ==
    /\ ndim(a) = ndim(b)
    /\ \A k \in 1..ndim(a) : k # axis => a.shape[k] = b.shape[k]

\* np.hstack((a, b)) of arrays of two or more axes: joined along the second
hstack(a, b) ==
    [shape |-> [a.shape EXCEPT ![2] = a.shape[2] + b.shape[2]],
     v     |-> [i \in 1..a.shape[1] |-> a.v[i] \o b.v[i]]]

\* np.vstack((a, b)) of two 2-axis arrays
vstack(a, b) ==
    [shape |-> [a.shape EXCEPT ![1] = a.shape[1] + b.shape[1]],
     v     |-> a.v \o b.v]

\* a[:, 0] of a 2-axis array
column0(a) == [i \in 1..a.shape[1] |-> a.v[i][1]]

\* a slip: no sort at all, the rows stay as they were stacked
argsort_none(col) == {[i \in 1..Len(col) |-> i - 1]}

\* the results np.argsort(col) may give: the sort is not stable, so every
\* order of equal keys is possible
argsort(col) ==
    {p \in [1..Len(col) -> 0..(Len(col) - 1)] :
        /\ \A i, j \in 1..Len(col) : i # j => p[i] # p[j]
        /\ \A i \in 1..(Len(col) - 1) : col[p[i] + 1] <= col[p[i + 1] + 1]}

(***************************************************************************)
(* GeoData.timeregister                                                    *)
(***************************************************************************)
\* np.argwhere(l[0] > times2[:,0]): the 0-based rows that start before l[0]
list1(l, times2) == {i \in 0..(times2.shape[1] - 1) : l[1] > times2.v[i + 1][1]}

\* np.argwhere(l[1] < times2[:,1]): the 0-based rows that end after l[1]
list2(l, times2) == {i \in 0..(times2.shape[1] - 1) : l[2] < times2.v[i + 1][2]}

SetMax(S) == CHOOSE x \in S : \A y \in S : y <= x

SetMin(S) == CHOOSE x \in S : \A y \in S : x <= y

\* a slip: list1[0][0]
ind1_first(l, times2) == SetMin(list1(l, times2))

\* list1[-1][0]
ind1(l, times2) == SetMax(list1(l, times2))

\* list2[0][0]
ind2(l, times2) == SetMin(list2(l, times2))

timeregister(self, self2) ==
    LET times1 == timerepair(self.times)
        times2 == timerepair(self2.times)
    IN  [k \in 1..times1.shape[1] |->
            LET l == times1.v[k]
            IN  IF list1(l, times2) = {} \/ list2(l, times2) = {}
                THEN <<>>
                ELSE arange(ind1(l, times2), ind2(l, times2) + 1)]

(***************************************************************************)
(* GeoData.add_times                                                       *)
(***************************************************************************)
\* a slip: the sensor location is not looked at
add_times_check_nosensor(self, self2) ==
    LET asrt(r) == IF r = "False" THEN "AssertionError" ELSE r
    IN  firstbad(<<
          IF keyset(self.data) = keyset(self2.data) THEN "True" ELSE "AssertionError",
          IF self.coordnames = self2.coordnames THEN "True" ELSE "AssertionError",
          asrt(allequal(self.dataloc, self2.dataloc)) >>)

\* the asserts of lines 109-121, in order: "True" or the exception raised
add_times_check(self, self2) ==
    LET asrt(r) == IF r = "False" THEN "AssertionError" ELSE r
    IN  firstbad(<<
          IF keyset(self.data) = keyset(self2.data) THEN "True" ELSE "AssertionError",
          IF self.coordnames = self2.coordnames THEN "True" ELSE "AssertionError",
          asrt(allequal(self.dataloc, self2.dataloc)),
          asrt(allequal(self.sensorloc, self2.sensorloc)) >>)

\* the exception of np.hstack((a, b))[:, s_ind], "None" when there is none
merge_field_err(a, b, s_ind) ==
    IF ~stackable(a, b, 2) THEN "ValueError"
    ELSE IF ~inbounds(hstack(a, b), 2, s_ind) THEN "IndexError"
    ELSE "None"

\* outarr = np.hstack((a, b)); outarr[:, s_ind]
merge_field(a, b, s_ind) == take(hstack(a, b), 2, s_ind)

\* the loop of lines 129-131 from field i on: stops at the first exception
RECURSIVE add_fields(_, _, _, _)
add_fields(d, d2, s_ind, i) ==
    IF i > Len(d) THEN [data |-> d, err |-> "None"]
    ELSE LET b == getitem(d2, d[i].name)
             e == merge_field_err(d[i].arr, b, s_ind)
         IN  IF e # "None"
             THEN [data |-> d, err |-> e]
             ELSE add_fields([d EXCEPT ![i].arr = merge_field(d[i].arr, b, s_ind)],
                             d2, s_ind, i + 1)

\* the merged table before it is sorted
alltimes(self, self2) == vstack(timerepair(self.times), timerepair(self2.times))

\* self after self.add_times(self2) with the sort order s_ind, and the
\* exception raised ("None" when there is none)
add_times(self, self2, s_ind) ==
    LET chk == add_times_check(self, self2)
    IN  IF chk # "True" THEN [self |-> self, err |-> chk]
        ELSE LET f == add_fields(self.data, self2.data, s_ind, 1)
             IN  [self |-> [self EXCEPT !.times = take(alltimes(self, self2), 1, s_ind),
                                        !.data  = f.data],
                  err  |-> f.err]

(***************************************************************************)
(* copyinst and GeoData.copy                                               *)
(***************************************************************************)
copyinst(obj1) ==
    <<obj1.data, obj1.coordnames, obj1.dataloc, obj1.sensorloc, obj1.times,
      obj1.expdesc>>

copy(self) ==
    LET t == copyinst(self)
    IN  GeoData(t[1], t[2], t[3], t[4], t[5], t[6])

(***************************************************************************)
(* GeoData.timeslice                                                       *)
(***************************************************************************)
\* np.where(np.in1d(self.times[:,0], timelist))[0]
RECURSIVE where_in(_, _, _)
where_in(col, timelist, i) ==
    IF i > Len(col) THEN <<>>
    ELSE (IF \E k \in 1..Len(timelist) : feq(col[i], timelist[k])
          THEN <<i - 1>> ELSE <<>>) \o where_in(col, timelist, i + 1)

loclist(self, timelist, listtype) ==
    IF listtype = "Time" THEN where_in(column0(self.times), timelist, 1)
    ELSE timelist

\* the exception of cutting one field down to the chosen times
slice_field_err(a, ll) ==
    CASE ndim(a) = 2 -> IF inbounds(a, 2, ll) THEN "None" ELSE "IndexError"
      [] ndim(a) = 3 -> IF inbounds(a, 1, ll) THEN "None" ELSE "IndexError"
      [] OTHER       -> "TypeError"

\* gd2.data[idata][:,loclist] or gd2.data[idata][loclist,:,:]
slice_field(a, ll) == IF ndim(a) = 2 THEN take(a, 2, ll) ELSE take(a, 1, ll)

RECURSIVE slice_fields(_, _, _)
slice_fields(d, ll, i) ==
    IF i > Len(d) THEN [data |-> d, err |-> "None"]
    ELSE LET e == slice_field_err(d[i].arr, ll)
         IN  IF e # "None"
             THEN [data |-> d, err |-> e]
             ELSE slice_fields([d EXCEPT ![i].arr = slice_field(d[i].arr, ll)], ll, i + 1)

\* the data set returned (out) and the exception raised; self is not assigned
timeslice(self, timelist, listtype) ==
    LET ll  == loclist(self, timelist, listtype)
        gd2 == copy(self)
    IN  IF ~inbounds(gd2.times, 1, ll) THEN [out |-> gd2, err |-> "IndexError"]
        ELSE LET f == slice_fields(gd2.data, ll, 1)
             IN  [out |-> [gd2 EXCEPT !.times = take(gd2.times, 1, ll),
                                      !.data  = f.data],
                  err |-> f.err]

(***************************************************************************)
(* GeoData.__changecoords__ and the interpolation of one time step.        *)
(***************************************************************************)
\* str.lower() of the coordinate names in use
lower(name) ==
    CASE name = "Spherical" -> "spherical"
      [] name = "Cartesian" -> "cartesian"
      [] OTHER              -> name

\* the exception of self.__changecoords__(newcoordname); the conversions
\* between spherical and cartesian belong to CoordTransforms and are not
\* called for the names the model hands in
changecoords_err(self, newcoordname) ==
    IF lower(self.coordnames) = lower(newcoordname) THEN "None" ELSE "ValueError"

\* self.__changecoords__(newcoordname) for the same system: self.dataloc
changecoords(self, newcoordname) == self.dataloc

\* the 1-based positions of the finite values of curparam, ascending
RECURSIVE finite_at(_, _)
finite_at(curparam, i) ==
    IF i > Len(curparam) THEN <<>>
    ELSE (IF isnan(curparam[i]) THEN <<>> ELSE <<i>>) \o finite_at(curparam, i + 1)

\* squared distance of two coordinate rows
dist2(a, b) == SumSeq([c \in 1..Len(a) |-> (a[c] - b[c]) * (a[c] - b[c])])

\* scipy.interpolate.griddata(points, values, xi, 'nearest'): for every row
\* of xi the value at the nearest point; of several nearest points the one
\* of least prio, a ranking the library is free to take
griddata(points, values, xi, prio) ==
    [m \in 1..Len(xi) |->
        LET near == {k \in 1..Len(points) :
                        \A j \in 1..Len(points) :
                            dist2(points[k], xi[m]) <= dist2(points[j], xi[m])}
            k0   == CHOOSE k \in near : \A j \in near : prio[k] <= prio[j]
        IN  values[k0]]

\* the values of field arr at time step itime (1-based), one per location
curparam_of(arr, itime) ==
    IF ndim(arr) = 2 THEN [l \in 1..arr.shape[1] |-> arr.v[l][itime]]
    ELSE Flatten(arr.v[itime])

\* the exception raised while time step itime of field iparam is worked on
interp_step_err(iparam, arr, curcoords, itime) ==
    IF ndim(arr) \notin {2, 3} THEN "ValueError"
    ELSE IF (ndim(arr) = 2 /\ itime > arr.shape[2]) \/ (ndim(arr) = 3 /\ itime > arr.shape[1])
    THEN "IndexError"
    ELSE IF iparam # "optical" /\ Len(curparam_of(arr, itime)) # curcoords.shape[1]
    THEN "IndexError"
    ELSE IF iparam = "optical" /\ curcoords.shape[1] > 0
            /\ Len(curparam_of(arr, itime)) # curcoords.shape[1]
    THEN "ValueError"
    ELSE "None"

\* no finite sample is left for the step: the warning of line 247 is logged
interp_step_warns(iparam, arr, curcoords, itime) ==
    IF iparam # "optical" THEN finite_at(curparam_of(arr, itime), 1) = <<>>
    ELSE curcoords.shape[1] = 0

\* intparam, as the column written to New_param[:, itime]; pref ranks the
\* rows of curcoords for griddata
interp_step(iparam, arr, curcoords, new_coords, itime, pref) ==
    LET curparam == curparam_of(arr, itime)
        keep     == IF iparam # "optical" THEN finite_at(curparam, 1)
                    ELSE [l \in 1..curcoords.shape[1] |-> l]
    IN  IF Len(keep) > 0
        THEN griddata([k \in 1..Len(keep) |-> curcoords.v[keep[k]]],
                      [k \in 1..Len(keep) |-> curparam[keep[k]]],
                      new_coords.v,
                      [k \in 1..Len(keep) |-> pref[keep[k]]])
        ELSE [m \in 1..new_coords.shape[1] |-> NaN]

\* the loop over the time steps of one field, from step itime on: the
\* columns made so far, the warnings logged, and the exception that ends it
RECURSIVE interp_times(_, _, _, _, _, _, _)
interp_times(iparam, arr, curcoords, new_coords, Nt, pref, itime) ==
    IF itime > Nt THEN [cols |-> <<>>, warns |-> <<>>, err |-> "None"]
    ELSE LET e == interp_step_err(iparam, arr, curcoords, itime)
         IN  IF e # "None" THEN [cols |-> <<>>, warns |-> <<>>, err |-> e]
             ELSE LET rest == interp_times(iparam, arr, curcoords, new_coords, Nt,
                                           pref, itime + 1)
                  IN  [cols  |-> <<interp_step(iparam, arr, curcoords, new_coords,
                                               itime, pref)>> \o rest.cols,
                       warns |-> (IF interp_step_warns(iparam, arr, curcoords, itime)
                                  THEN << <<iparam, itime - 1>> >> ELSE <<>>)
                                 \o rest.warns,
                       err   |-> rest.err]

\* New_param of shape (NNlocs, Nt) from its columns
New_param(cols, NNlocs) ==
    Arr2([l \in 1..NNlocs |-> [t \in 1..Len(cols) |-> cols[t][l]]], Len(cols))

\* the loop over the fields from field i on (lines 219-250): a field is
\* replaced once all its time steps are done
RECURSIVE interp_fields(_, _, _, _, _, _)
interp_fields(d, curcoords, new_coords, Nt, pref, i) ==
    IF i > Len(d) THEN [data |-> d, warns |-> <<>>, err |-> "None"]
    ELSE LET r == interp_times(d[i].name, d[i].arr, curcoords, new_coords, Nt, pref, 1)
         IN  IF r.err # "None" THEN [data |-> d, warns |-> r.warns, err |-> r.err]
             ELSE LET rest == interp_fields(
                                 [d EXCEPT ![i].arr = New_param(r.cols, new_coords.shape[1])],
                                 curcoords, new_coords, Nt, pref, i + 1)
                  IN  [data |-> rest.data, warns |-> r.warns \o rest.warns,
                       err |-> rest.err]

(***************************************************************************)
(* GeoData.interpolate with method 'nearest', fill_value nan, no twodinterp *)
(* and no beam mask, called without a field selector.                      *)
(***************************************************************************)
interpolate(self, new_coords, newcoordname, pref) ==
    IF ~(ndim(new_coords) = 2 /\ new_coords.shape[2] = 3)
    THEN [self |-> self, warns |-> <<>>, err |-> "AssertionError"]
    ELSE IF changecoords_err(self, newcoordname) # "None"
    THEN [self |-> self, warns |-> <<>>, err |-> changecoords_err(self, newcoordname)]
    ELSE LET f == interp_fields(self.data, changecoords(self, newcoordname),
                                new_coords, self.times.shape[1], pref, 1)
         IN  [self  |-> IF f.err = "None"
                        THEN [self EXCEPT !.data = f.data, !.dataloc = new_coords,
                                          !.coordnames = newcoordname]
                        ELSE [self EXCEPT !.data = f.data],
              warns |-> f.warns,
              err   |-> f.err]

(***************************************************************************)
(* GeoData.datareducelocation                                              *)
(***************************************************************************)
\* np.where(np.all(self.dataloc==irow,axis=1))[0]: the 0-based matching rows
matches(dataloc, irow) ==
    {i \in 0..(dataloc.shape[1] - 1) :
        \A c \in 1..dataloc.shape[2] : feq(dataloc.v[i + 1][c], irow[c])}

\* reorderlist with the last matching row for every wanted row
reorderlist_last(dataloc, newcoords) ==
    [n \in 1..newcoords.shape[1] |-> SetMax(matches(dataloc, newcoords.v[n]))]

\* reorderlist: for every wanted row the first matching row
reorderlist(dataloc, newcoords) ==
    [n \in 1..newcoords.shape[1] |-> SetMin(matches(dataloc, newcoords.v[n]))]

\* the loop of lines 310-311 from field i on
RECURSIVE reduce_fields(_, _, _)
reduce_fields(d, rl, i) ==
    IF i > Len(d) THEN [data |-> d, err |-> "None"]
    ELSE IF ~inbounds(d[i].arr, 1, rl) THEN [data |-> d, err |-> "IndexError"]
    ELSE reduce_fields([d EXCEPT ![i].arr = take(d[i].arr, 1, rl)], rl, i + 1)

\* self after self.datareducelocation(newcoords, coordname), and the exception
datareducelocation(self, newcoords, coordname) ==
    IF lower(self.coordnames) # lower(coordname)
    THEN [self |-> self, err |-> "AssertionError"]
    ELSE IF \E n \in 1..newcoords.shape[1] : matches(self.dataloc, newcoords.v[n]) = {}
    THEN [self |-> self, err |-> "IndexError"]
    ELSE LET f == reduce_fields(self.data, reorderlist(self.dataloc, newcoords), 1)
         IN  [self |-> [self EXCEPT !.data = f.data], err |-> f.err]

(***************************************************************************)
(* GeoData.changedata                                                      *)
(***************************************************************************)
\* the functions handed to changedata, applied to one element
apply1(func, x) ==
    CASE func = "flip" -> IF isnan(x) THEN NaN ELSE 1 - x
      [] func = "isnan" -> IF isnan(x) THEN 1 ELSE 0

\* func(arr): elementwise, the shape is kept
apply(func, a) ==
    [a EXCEPT !.v =
        CASE ndim(a) = 1 -> [i \in 1..Len(a.v) |-> apply1(func, a.v[i])]
          [] ndim(a) = 2 -> [i \in 1..Len(a.v) |->
                               [j \in 1..Len(a.v[i]) |-> apply1(func, a.v[i][j])]]
          [] ndim(a) = 3 -> [i \in 1..Len(a.v) |->
                               [j \in 1..Len(a.v[i]) |->
                                  [k \in 1..Len(a.v[i][j]) |-> apply1(func, a.v[i][j][k])]]]]

\* d[name] = arr: in place when the key exists, at the end otherwise
setitem(d, name, arr) ==
    IF name \in keyset(d)
    THEN [i \in 1..Len(d) |-> IF d[i].name = name THEN [name |-> name, arr |-> arr] ELSE d[i]]
    ELSE Append(d, [name |-> name, arr |-> arr])

\* del d[name]
delitem(d, name) == SelectSeq(d, LAMBDA e : e.name # name)

\* self after self.changedata(dataname, newname, func, (), rm_old)
changedata(self, dataname, newname, func, rm_old) ==
    IF dataname \notin keyset(self.data)
    THEN [self |-> self, err |-> "AssertionError"]
    ELSE LET d1 == setitem(self.data, newname, apply(func, getitem(self.data, dataname)))
         IN  [self |-> [self EXCEPT !.data = IF rm_old THEN delitem(d1, dataname) ELSE d1],
              err  |-> "None"]

(***************************************************************************)
(* Inputs: small arrays and data sets.                                     *)
(***************************************************************************)
\* field values
Val == {NaN, 0, 1}

\* time values, in ticks
TimeVals == {t * TicksPerUnit : t \in 0..MaxTime}

\* sequences over S of length lo..hi
SeqsOf(S, lo, hi) == UNION {[1..n -> S] : n \in lo..hi}

\* a 2-axis (numLocations, numTimes) field holding x everywhere
field2(nloc, nt, x) == Arr2([l \in 1..nloc |-> [t \in 1..nt |-> x]], nt)

\* a 3-axis (numTimes, 1, numLocations) image stack holding x everywhere
image3(nloc, nt, x) ==
    [shape |-> <<nt, 1, nloc>>,
     v     |-> [t \in 1..nt |-> << [c \in 1..nloc |-> x] >>]]

\* the dict of the named fields; "optical" is the image stack
mkdata(names, nloc, nt, x) ==
    [i \in 1..Len(names) |->
        [name |-> names[i],
         arr  |-> IF names[i] = "optical" THEN image3(nloc, nt, x)
                  ELSE field2(nloc, nt, x)]]

\* number of rows of the table timerepair makes of a raw array
ntimes(raw) == timerepair(raw).shape[1]

\* a data set as a reader hands it to the constructor
mkgd(names, coordnames, dataloc, sensorloc, raw, x) ==
    GeoData(mkdata(names, dataloc.shape[1], ntimes(raw), x),
            coordnames, dataloc, sensorloc, raw, "desc")

loc0 == Arr2(<< <<0, 0, 0>> >>, 3)
locNaN == Arr2(<< <<0, NaN, 0>> >>, 3)
loc1 == Arr2(<< <<0, 1, 0>> >>, 3)
sens0 == Arr1(<<0, 0, 0>>)
sensNaN == Arr1(<<NaN, NaN, NaN>>)
sens1 == Arr1(<<0, 0, 1>>)

(***************************************************************************)
(* Construction from a raw time array (specification SpecRepair).          *)
(***************************************************************************)
\* the raw time arrays: flat, (N,1) and (N,2)
RawTimes ==
    {Arr1(s) : s \in SeqsOf(TimeVals, 1, MaxLen)}
    \cup {Arr2([i \in 1..Len(s) |-> <<s[i]>>], 1) : s \in SeqsOf(TimeVals, 1, MaxLen)}
    \cup {Arr2(rows, 2) : rows \in SeqsOf(TimeVals \X TimeVals, 1, MaxLen - 1)}

InitRepair ==
    /\ gd = <<>>
    /\ \E raw \in RawTimes : last = [op |-> "input", timear |-> raw]

\* gd = GeoData('', (data, coordnames, dataloc, sensorloc, times, expdesc))
Construct ==
    /\ last.op = "input"
    /\ gd' = << mkgd(<<"ne">>, "Spherical", loc0, sens0, last.timear, 0) >>
    /\ last' = [op |-> "__init__", timear |-> last.timear]

NextRepair == Construct

SpecRepair == InitRepair /\ [][NextRepair]_vars

\* the raw array of the last construction is N >= 2 instants
RepairedInstants ==
    /\ last.op = "__init__"
    /\ ~(ndim(last.timear) = 2 /\ last.timear.shape[2] = 2)
    /\ last.timear.shape[1] >= 2

\* the instants of the raw array, in order
instants(raw) == IF ndim(raw) = 2 THEN Flatten(raw.v) ELSE raw.v

\* start < N: end[i] = start[i+1]; column 0 is the input; N rows of 2
RepairBody(s, t) ==
    /\ t.shape = <<Len(s), 2>>
    /\ \A i \in 1..Len(s) : t.v[i][1] = s[i]
    /\ \A i \in 1..(Len(s) - 1) : t.v[i][2] = s[i + 1]

\* C5 as amended: timerepair on N >= 2 instants gives an (N,2) table whose
\* column 0 is the input, with end[i] = start[i+1] for i < N-1 and, for the
\* last row, end[N-1] = start[N-1] + avgDiff, the mean of the consecutive
\* differences (stated as (N-1) * (end - start) = sum of the differences).
C5_LastEndFromLastStart ==
    RepairedInstants =>
        LET s == instants(last.timear)
            t == gd[1].times
            N == Len(s)
        IN  /\ RepairBody(s, t)
            /\ (t.v[N][2] - s[N]) * (N - 1) = SumSeq(diff(s))

\* C5 as stated: the last end is start[N-2] + avgDiff
C5_LastEndFromPrevStart ==
    RepairedInstants =>
        LET s == instants(last.timear)
            t == gd[1].times
            N == Len(s)
        IN  /\ RepairBody(s, t)
            /\ (t.v[N][2] - s[N - 1]) * (N - 1) = SumSeq(diff(s))

\* three instants were repaired whose last two differ
C5_Witness ==
    /\ RepairedInstants
    /\ Len(instants(last.timear)) = 3
    /\ instants(last.timear)[3] # instants(last.timear)[2]

\* C6 as stated: every row of a data set's timeIntervals has start <= end
C6_StartNotAfterEnd ==
    \A i \in 1..Len(gd) : \A k \in 1..gd[i].times.shape[1] :
        gd[i].times.v[k][1] <= gd[i].times.v[k][2]

(***************************************************************************)
(* Time registration of two data sets (specification SpecRegister).        *)
(***************************************************************************)
\* interval tables of lo..hi rows, any start and end, in any order
Tables(lo, hi) == {Arr2(rows, 2) : rows \in SeqsOf(TimeVals \X TimeVals, lo, hi)}

InitRegister ==
    /\ \E t1 \in Tables(1, 1), t2 \in Tables(1, MaxRows) :
          gd = << mkgd(<<"ne">>, "Spherical", loc0, sens0, t1, 0),
                  mkgd(<<"ne">>, "Spherical", loc0, sens0, t2, 1) >>
    /\ last = [op |-> "__init__"]

\* outcell = gd[i].timeregister(gd[j])
Timeregister(i, j) ==
    /\ last.op = "__init__"
    /\ last' = [op |-> "timeregister", self |-> i, self2 |-> j,
                out |-> timeregister(gd[i], gd[j])]
    /\ UNCHANGED gd

NextRegister == \E i, j \in {1, 2} : i # j /\ Timeregister(i, j)

SpecRegister == InitRegister /\ [][NextRegister]_vars

\* the 0-based rows of table t2 that start before s1 / after s1
StartsBefore(t2, s1) == {i \in 0..(t2.shape[1] - 1) : t2.v[i + 1][1] < s1}
StartsAfter(t2, s1) == {i \in 0..(t2.shape[1] - 1) : t2.v[i + 1][1] > s1}

\* the 0-based rows of table t2 that end after e1 / before e1
EndsAfter(t2, e1) == {i \in 0..(t2.shape[1] - 1) : t2.v[i + 1][2] > e1}
EndsBefore(t2, e1) == {i \in 0..(t2.shape[1] - 1) : t2.v[i + 1][2] < e1}

\* the integers lo..hi in order (empty when hi < lo)
Range(lo, hi) == [m \in 1..Max(0, hi - lo + 1) |-> lo + m - 1]

\* the selection rule with index sets A(k) and B(k) for row k
SelectionRule(A(_), B(_)) ==
    /\ Len(last.out) = gd[last.self].times.shape[1]
    /\ \A k \in 1..Len(last.out) :
          last.out[k] = IF A(k) = {} \/ B(k) = {} THEN <<>>
                        ELSE Range(SetMax(A(k)), SetMin(B(k)))

\* C3 as amended: for every row k = [s1,e1] of the first table, A is the set
\* of second-table rows whose start < s1 and B the set of those whose
\* end > e1; the result for k is empty if A or B is empty, otherwise the
\* inclusive integer range from the last index in A to the first index in B.
C3_RuleStartBeforeEndAfter ==
    last.op = "timeregister" =>
        LET t1 == gd[last.self].times
            t2 == gd[last.self2].times
            A(k) == StartsBefore(t2, t1.v[k][1])
            B(k) == EndsAfter(t2, t1.v[k][2])
        IN  SelectionRule(A, B)

\* C3 as stated: A holds the rows whose start > s1, B those whose end < e1
C3_RuleStartAfterEndBefore ==
    last.op = "timeregister" =>
        LET t1 == gd[last.self].times
            t2 == gd[last.self2].times
            A(k) == StartsAfter(t2, t1.v[k][1])
            B(k) == EndsBefore(t2, t1.v[k][2])
        IN  SelectionRule(A, B)

\* a row was registered for which two rows start before it, and a range came out
C3_Witness ==
    /\ last.op = "timeregister"
    /\ \E k \in 1..Len(last.out) :
          /\ Cardinality(StartsBefore(gd[last.self2].times,
                                      gd[last.self].times.v[k][1])) = 2
          /\ last.out[k] # <<>>

\* C4: timeregister returns exactly n1 elements, each one empty or a
\* contiguous strictly ascending run of integers within [0, n2).
C4_RunsOfValidIndices ==
    last.op = "timeregister" =>
        LET n1 == gd[last.self].times.shape[1]
            n2 == gd[last.self2].times.shape[1]
        IN  /\ Len(last.out) = n1
            /\ \A k \in 1..Len(last.out) :
                  /\ \A m \in 1..Len(last.out[k]) : last.out[k][m] \in 0..(n2 - 1)
                  /\ \A m \in 1..(Len(last.out[k]) - 1) :
                        last.out[k][m + 1] = last.out[k][m] + 1

\* a run of two indices came out of a registration against a two-row table
C4_Witness ==
    /\ last.op = "timeregister"
    /\ gd[last.self2].times.shape[1] = 2
    /\ \E k \in 1..Len(last.out) : Len(last.out[k]) = 2

(***************************************************************************)
(* Equality of two data sets (specification SpecEq).                       *)
(***************************************************************************)
\* array a with the element at index tuple idx replaced by y
setat(a, idx, y) ==
    [a EXCEPT !.v =
        CASE ndim(a) = 1 -> [a.v EXCEPT ![idx[1]] = y]
          [] ndim(a) = 2 -> [a.v EXCEPT ![idx[1]][idx[2]] = y]
          [] ndim(a) = 3 -> [a.v EXCEPT ![idx[1]][idx[2]][idx[3]] = y]]

\* the data sets that differ from g in at most one place: one element of a
\* field, of dataloc, of sensorloc or of times, the coordinate name, or the
\* name of the first field
Variants(g) ==
    {g}
    \cup {[g EXCEPT !.data[i].arr = setat(g.data[i].arr, idx, y)] :
            i \in 1..Len(g.data), idx \in indices(g.data[1].arr.shape), y \in Val}
    \cup {[g EXCEPT !.dataloc = setat(g.dataloc, idx, y)] :
            idx \in indices(g.dataloc.shape), y \in Val}
    \cup {[g EXCEPT !.sensorloc = setat(g.sensorloc, idx, y)] :
            idx \in indices(g.sensorloc.shape), y \in Val}
    \cup {[g EXCEPT !.times = setat(g.times, idx, y)] :
            idx \in indices(g.times.shape), y \in Val}
    \cup {[g EXCEPT !.coordnames = "Cartesian"], [g EXCEPT !.data[1].name = "ti"]}

\* the table of two consecutive unit intervals
twotimes == Arr2(<< <<0, TicksPerUnit>>, <<TicksPerUnit, 2 * TicksPerUnit>> >>, 2)

InitEq ==
    /\ \E x \in Val, loc \in {loc0, locNaN}, sens \in {sens0, sensNaN} :
          \E g2 \in Variants(mkgd(<<"ne">>, "Spherical", loc, sens, twotimes, x)) :
              gd = << mkgd(<<"ne">>, "Spherical", loc, sens, twotimes, x), g2 >>
    /\ last = [op |-> "__init__"]

\* gd[i] == gd[j]
Eq(i, j) ==
    /\ last.op = "__init__"
    /\ last' = [op |-> "__eq__", self |-> i, self2 |-> j, out |-> __eq__(gd[i], gd[j])]
    /\ UNCHANGED gd

\* gd[i] != gd[j]
Ne(i, j) ==
    /\ last.op = "__init__"
    /\ last' = [op |-> "__ne__", self |-> i, self2 |-> j, out |-> __ne__(gd[i], gd[j])]
    /\ UNCHANGED gd

NextEq ==
    \/ \E i, j \in {1, 2} : Eq(i, j)
    \/ \E i, j \in {1, 2} : Ne(i, j)

SpecEq == InitEq /\ [][NextEq]_vars

\* the arrays of a data set as <<label, array>> pairs
ArraysOf(g) ==
    {<<g.data[i].name, g.data[i].arr>> : i \in 1..Len(g.data)}
    \cup {<<"//dataloc", g.dataloc>>, <<"//sensorloc", g.sensorloc>>,
          <<"//times", g.times>>}

\* the places <<label, index>> at which two same-shaped data sets differ
DiffPlaces(g, h) ==
    UNION {{<<pa[1], idx>> :
               idx \in {x \in indices(pa[2].shape) :
                          \E pb \in ArraysOf(h) :
                             pb[1] = pa[1] /\ at(pb[2], x) # at(pa[2], x)}} :
           pa \in ArraysOf(g)}

\* the same names, coordinate name and shapes
SameLayout(g, h) ==
    /\ keyset(g.data) = keyset(h.data)
    /\ g.coordnames = h.coordnames
    /\ \A pa \in ArraysOf(g) : \E pb \in ArraysOf(h) :
          pa[1] = pb[1] /\ pa[2].shape = pb[2].shape

\* g and h are identical except for one element that is not-a-number in one
\* of them and a finite value in the other
NaNAgainstFinite(g, h) ==
    /\ SameLayout(g, h)
    /\ Cardinality(DiffPlaces(g, h)) = 1
    /\ \A pa \in ArraysOf(g), pb \in ArraysOf(h) :
          pa[1] = pb[1] =>
             \A idx \in indices(pa[2].shape) :
                at(pa[2], idx) # at(pb[2], idx) =>
                   isnan(at(pa[2], idx)) # isnan(at(pb[2], idx))

\* C2 as stated: data sets identical but for one place where one holds
\* not-a-number and the other a finite value compare not-equal
\* (== is False and != is True).
C2_NaNAgainstFiniteUnequal ==
    /\ (last.op = "__eq__" /\ NaNAgainstFinite(gd[last.self], gd[last.self2]))
          => last.out = "False"
    /\ (last.op = "__ne__" /\ NaNAgainstFinite(gd[last.self], gd[last.self2]))
          => last.out = "True"

\* C10: == is reflexive (also with not-a-number values) and symmetric for
\* same-shaped data sets, and != is the negation of ==.
C10_EqReflexiveSymmetric ==
    /\ (last.op = "__eq__" /\ last.self = last.self2) => last.out = "True"
    /\ (last.op = "__eq__" /\ SameLayout(gd[1], gd[2]))
          => last.out = __eq__(gd[last.self2], gd[last.self])
    /\ last.op = "__ne__"
          => (last.out = "True") = (__eq__(gd[last.self], gd[last.self2]) = "False")

\* two data sets were compared of which one holds not-a-number where the
\* other holds a finite value
C10_Witness ==
    /\ last.op = "__eq__"
    /\ last.self # last.self2
    /\ NaNAgainstFinite(gd[1], gd[2])

(***************************************************************************)
(* Merging and slicing in time (specification SpecMerge).                  *)
(***************************************************************************)
base == [names |-> <<"ne">>, cn |-> "Spherical", loc |-> loc0, sens |-> sens0]

\* the pairs of settings two data sets are built with: alike, or differing in
\* the field names, the coordinate name, a location or the sensor location
ConfigPairs ==
    { <<base, base>>,
      <<[base EXCEPT !.names = <<"ne", "optical">>],
        [base EXCEPT !.names = <<"ne", "optical">>]>>,
      <<base, [base EXCEPT !.names = <<"ne", "optical">>]>>,
      <<base, [base EXCEPT !.cn = "Cartesian"]>>,
      <<base, [base EXCEPT !.loc = locNaN]>>,
      <<base, [base EXCEPT !.loc = loc1]>>,
      <<base, [base EXCEPT !.sens = sensNaN]>>,
      <<base, [base EXCEPT !.sens = sens1]>> }

\* the intervals of the one-row tables the data sets start with: two of them
\* start together and end apart
MergeRows ==
    { <<0, TicksPerUnit>>, <<0, 2 * TicksPerUnit>>, <<TicksPerUnit, 2 * TicksPerUnit>> }

InitMerge ==
    /\ \E c \in ConfigPairs, r1 \in MergeRows, r2 \in MergeRows :
          gd = << mkgd(c[1].names, c[1].cn, c[1].loc, c[1].sens, Arr2(<<r1>>, 2), 0),
                  mkgd(c[2].names, c[2].cn, c[2].loc, c[2].sens, Arr2(<<r2>>, 2), 1) >>
    /\ last = [op |-> "__init__"]

\* gd[i].add_times(gd[j])
AddTimes(i, j) ==
    /\ gd[i].times.shape[1] + gd[j].times.shape[1] <= MaxRows
    /\ \E s_ind \in IF add_times_check(gd[i], gd[j]) = "True"
                    THEN argsort(column0(alltimes(gd[i], gd[j])))
                    ELSE {<<>>} :
          LET r == add_times(gd[i], gd[j], s_ind)
          IN  /\ gd' = [gd EXCEPT ![i] = r.self]
              /\ last' = [op |-> "add_times", self |-> i, self2 |-> j,
                          s_ind |-> s_ind, err |-> r.err, pre |-> gd[i]]

\* the index lists and time lists handed to timeslice
TimeLists(self, listtype) ==
    IF listtype = "Time" THEN {<<0>>, <<0, TicksPerUnit>>}
    ELSE {<<>>, <<1, 0>>} \cup SeqsOf(0..self.times.shape[1], 1, 1)

\* gd[j] = gd[i].timeslice(timelist, listtype)
Timeslice(i, j) ==
    \E listtype \in {"Array", "Time"} : \E timelist \in TimeLists(gd[i], listtype) :
        LET r == timeslice(gd[i], timelist, listtype)
        IN  /\ gd' = IF r.err = "None" THEN [gd EXCEPT ![j] = r.out] ELSE gd
            /\ last' = [op |-> "timeslice", self |-> i, into |-> j,
                        timelist |-> timelist, listtype |-> listtype,
                        err |-> r.err]

NextMerge ==
    \/ \E i, j \in {1, 2} : i # j /\ AddTimes(i, j)
    \/ \E i, j \in {1, 2} : i # j /\ Timeslice(i, j)

SpecMerge == InitMerge /\ [][NextMerge]_vars

\* the permutations of 0..n-1, as orders of n rows
Orders(n) == {p \in [1..n -> 0..(n - 1)] : \A i, j \in 1..n : i # j => p[i] # p[j]}

\* the starts of table t ascend
SortedByStart(t) ==
    \A k \in 1..(t.shape[1] - 1) : t.v[k][1] <= t.v[k + 1][1]

\* two arrays joined along their time axis: the second axis of a 2-axis
\* field, the first of a 3-axis image stack
TimeJoin(a, b) ==
    IF ndim(a) = 2 THEN hstack(a, b)
    ELSE [shape |-> [a.shape EXCEPT ![1] = a.shape[1] + b.shape[1]], v |-> a.v \o b.v]

\* the time steps of an array put in the order p
TimeOrder(a, p) == IF ndim(a) = 2 THEN take(a, 2, p) ELSE take(a, 1, p)

\* the last operation was an add_times that raised nothing
Merged == last.op = "add_times" /\ last.err = "None"

\* C7 as stated: after a successful add_times the merged table is the union
\* of both tables sorted ascending by start, and one single permutation
\* carries the joined table and the time axis of every field, 2-axis and
\* 3-axis alike, to their merged order.
C7_OnePermutationForAll ==
    Merged =>
        LET A == last.pre
            B == gd[last.self2]
            G == gd[last.self]
        IN  \E p \in Orders(A.times.shape[1] + B.times.shape[1]) :
               /\ G.times = take(vstack(A.times, B.times), 1, p)
               /\ SortedByStart(G.times)
               /\ \A f \in 1..Len(G.data) :
                     G.data[f].arr =
                        TimeOrder(TimeJoin(A.data[f].arr,
                                           getitem(B.data, A.data[f].name)), p)

\* the same, for the data sets that hold 2-axis fields only
C7_OnePermutationFor2Axis ==
    (Merged /\ \A f \in 1..Len(last.pre.data) : ndim(last.pre.data[f].arr) = 2)
        => C7_OnePermutationForAll

\* the table B would hold after B.add_times(A) under the sort order p
SwappedTimes(A, B, p) == add_times(B, A, p).self.times

\* the sort orders B.add_times(A) may take
SwappedOrders(A, B) == argsort(column0(alltimes(B, A)))

\* the multiset of the rows of a table, as the count of each row
RowCount(t, row) == Cardinality({k \in 1..t.shape[1] : t.v[k] = row})

SameRows(t, u) ==
    /\ t.shape = u.shape
    /\ \A k \in 1..t.shape[1] : RowCount(t, t.v[k]) = RowCount(u, t.v[k])

\* no two rows of the table start together and end apart
NoSplitTies(t) ==
    \A k, m \in 1..t.shape[1] : t.v[k][1] = t.v[m][1] => t.v[k][2] = t.v[m][2]

\* C8 as stated: the table of A after A.add_times(B) equals row for row the
\* table of B after B.add_times(A), ties of the start included.
C8_TablesEqualRowForRow ==
    Merged =>
        \A p \in SwappedOrders(last.pre, gd[last.self2]) :
            gd[last.self].times = SwappedTimes(last.pre, gd[last.self2], p)

\* C8 as amended: the table of A after A.add_times(B) and the table of B
\* after B.add_times(A) hold the same rows and the same column of starts,
\* row for row; they are equal row for row when no two intervals start
\* together and end apart.
C8_TablesEqualUpToTies ==
    Merged =>
        \A p \in SwappedOrders(last.pre, gd[last.self2]) :
            LET t == gd[last.self].times
                u == SwappedTimes(last.pre, gd[last.self2], p)
            IN  /\ column0(t) = column0(u)
                /\ SameRows(t, u)
                /\ NoSplitTies(t) => t = u

\* two data sets were merged whose intervals start at different times, the
\* later one first
C8_Witness ==
    /\ Merged
    /\ last.pre.times.shape[1] = 1
    /\ gd[last.self2].times.shape[1] = 1
    /\ last.pre.times.v[1][1] > gd[last.self2].times.v[1][1]
    /\ gd[last.self].times.shape[1] = 2

\* an entry at which two same-shaped arrays hold different numbers
DifferFinite(a, b) ==
    /\ a.shape = b.shape
    /\ \E idx \in indices(a.shape) :
          ~isnan(at(a, idx)) /\ ~isnan(at(b, idx)) /\ at(a, idx) # at(b, idx)

\* a merge precondition does not hold of A and B
PreconditionViolated(A, B) ==
    \/ keyset(A.data) # keyset(B.data)
    \/ A.coordnames # B.coordnames
    \/ DifferFinite(A.dataloc, B.dataloc)
    \/ DifferFinite(A.sensorloc, B.sensorloc)

\* C9: add_times raises an error and leaves the fields and timeIntervals of
\* both data sets unchanged whenever the field names, the coordinate names,
\* a location that is a number in both, or such an entry of the sensor
\* locations differ.
C9_MismatchRejectedUnchanged ==
    (last.op = "add_times" /\ PreconditionViolated(last.pre, gd[last.self2])) =>
        /\ last.err # "None"
        /\ gd[last.self].data = last.pre.data
        /\ gd[last.self].times = last.pre.times

\* an add_times of two data sets with different sensor locations was refused
C9_Witness ==
    /\ last.op = "add_times"
    /\ DifferFinite(last.pre.sensorloc, gd[last.self2].sensorloc)
    /\ last.err = "AssertionError"

(***************************************************************************)
(* The data set under all its operations (specification Spec).             *)
(***************************************************************************)
loc2 == Arr2(<< <<0, 0, 0>>, <<2, 0, 0>> >>, 3)

\* the tables the data sets of Spec start with
onetime == Arr2(<< <<TicksPerUnit, 2 * TicksPerUnit>> >>, 2)

\* the first data set holds x everywhere but y at one place of field "ne"
Init ==
    /\ \E names \in {<<"ne">>, <<"ne", "optical">>}, t \in {onetime, twotimes},
          x \in Val, y \in Val :
          gd = << [mkgd(names, "Spherical", loc2, sens0, t, x)
                      EXCEPT !.data[1].arr = setat(@, <<1, 1>>, y)],
                  mkgd(names, "Spherical", loc2, sens0, onetime, 1) >>
    /\ last = [op |-> "__init__", n |-> 0, clean |-> TRUE]

\* the record of a call: every operation so far returned without an exception
Called(rec, err) ==
    last' = rec @@ [n |-> last.n + 1, clean |-> last.clean /\ err = "None",
                    err |-> err]

\* a further operation may be applied
MayCall == last.n < MaxSteps

\* gd[i].add_times(gd[j])
DoAddTimes(i, j) ==
    /\ MayCall
    /\ gd[i].times.shape[1] + gd[j].times.shape[1] <= MaxRows
    /\ \E s_ind \in IF add_times_check(gd[i], gd[j]) = "True"
                    THEN argsort(column0(alltimes(gd[i], gd[j])))
                    ELSE {<<>>} :
          LET r == add_times(gd[i], gd[j], s_ind)
          IN  /\ gd' = [gd EXCEPT ![i] = r.self]
              /\ Called([op |-> "add_times", self |-> i, self2 |-> j,
                         s_ind |-> s_ind, pre |-> gd[i]], r.err)

\* gd[j] = gd[i].timeslice(timelist, listtype)
DoTimeslice(i, j) ==
    /\ MayCall
    /\ \E listtype \in {"Array", "Time"} : \E timelist \in TimeLists(gd[i], listtype) :
        LET r == timeslice(gd[i], timelist, listtype)
        IN  /\ gd' = IF r.err = "None" THEN [gd EXCEPT ![j] = r.out] ELSE gd
            /\ Called([op |-> "timeslice", self |-> i, into |-> j,
                       timelist |-> timelist, listtype |-> listtype], r.err)

\* the location tables asked for
NewCoords ==
    { Arr2(<< <<2, 0, 0>> >>, 3),
      Arr2(<< <<1, 0, 0>>, <<0, 0, 0>>, <<2, 0, 0>> >>, 3),
      Arr2(<< <<0, 0, 0>>, <<0, 0, 0>> >>, 3),
      Arr2(<< <<5, 5, 5>> >>, 3) }

\* the rankings of n points
Rankings(n) == {p \in [1..n -> 1..n] : \A i, j \in 1..n : i # j => p[i] # p[j]}

\* gd[i].interpolate(new_coords, newcoordname, 'nearest')
DoInterpolate(i) ==
    /\ MayCall
    /\ \E new_coords \in NewCoords, newcoordname \in {"spherical", "ENU"},
       pref \in Rankings(gd[i].dataloc.shape[1]) :
        LET r == interpolate(gd[i], new_coords, newcoordname, pref)
        IN  /\ gd' = [gd EXCEPT ![i] = r.self]
            /\ Called([op |-> "interpolate", self |-> i, new_coords |-> new_coords,
                       newcoordname |-> newcoordname, ikey |-> "None",
                       warns |-> r.warns, returned |-> FALSE,
                       pre |-> gd[i]], r.err)

\* gd[i].datareducelocation(newcoords, coordname)
DoDatareducelocation(i) ==
    /\ MayCall
    /\ \E newcoords \in NewCoords, coordname \in {"Spherical", "Cartesian"} :
        LET r == datareducelocation(gd[i], newcoords, coordname)
        IN  /\ gd' = [gd EXCEPT ![i] = r.self]
            /\ Called([op |-> "datareducelocation", self |-> i,
                       newcoords |-> newcoords, coordname |-> coordname,
                       pre |-> gd[i]], r.err)

\* gd[i].changedata(dataname, newname, func, (), rm_old)
DoChangedata(i) ==
    /\ MayCall
    /\ \E dataname \in {"ne", "ti"}, newname \in {"ne", "ti"}, func \in {"flip", "isnan"},
       rm_old \in BOOLEAN :
        LET r == changedata(gd[i], dataname, newname, func, rm_old)
        IN  /\ gd' = [gd EXCEPT ![i] = r.self]
            /\ Called([op |-> "changedata", self |-> i, dataname |-> dataname,
                       newname |-> newname, func |-> func, rm_old |-> rm_old,
                       pre |-> gd[i]], r.err)

(***************************************************************************)
(* GeoData.interpolate called with a field selector (ikey).                *)
(***************************************************************************)
\* the exception raised while time step itime of the selected field is
\* worked on (lines 258-263); the library of the build either takes an
\* empty point set (empty_ok) or raises on it
ikey_step_err(arr, curcoords, itime, empty_ok) ==
    IF ndim(arr) = 3
    THEN (IF itime > arr.shape[2] \/ arr.shape[1] # curcoords.shape[1]
             \/ arr.shape[3] # 3
          THEN "IndexError" ELSE "ValueError")
    ELSE IF ndim(arr) # 2 \/ itime > arr.shape[2] THEN "IndexError"
    ELSE IF arr.shape[1] # curcoords.shape[1] THEN "IndexError"
    ELSE IF finite_at(curparam_of(arr, itime), 1) = <<>> /\ ~empty_ok
    THEN "ValueError"
    ELSE "None"

\* intparam of the selected field at time step itime: no warning is logged
\* on this path, an empty point set gives nan at every new location
ikey_step(arr, curcoords, new_coords, itime, pref) ==
    LET curparam == curparam_of(arr, itime)
        datakeep == finite_at(curparam, 1)
    IN  IF Len(datakeep) > 0
        THEN griddata([k \in 1..Len(datakeep) |-> curcoords.v[datakeep[k]]],
                      [k \in 1..Len(datakeep) |-> curparam[datakeep[k]]],
                      new_coords.v,
                      [k \in 1..Len(datakeep) |-> pref[datakeep[k]]])
        ELSE [m \in 1..new_coords.shape[1] |-> NaN]

\* the loop over the time steps of the selected field (lines 257-263)
RECURSIVE ikey_times(_, _, _, _, _, _, _)
ikey_times(arr, curcoords, new_coords, Nt, pref, empty_ok, itime) ==
    IF itime > Nt THEN [cols |-> <<>>, err |-> "None"]
    ELSE LET e == ikey_step_err(arr, curcoords, itime, empty_ok)
         IN  IF e # "None" THEN [cols |-> <<>>, err |-> e]
             ELSE LET rest == ikey_times(arr, curcoords, new_coords, Nt, pref,
                                         empty_ok, itime + 1)
                  IN  [cols |-> <<ikey_step(arr, curcoords, new_coords, itime, pref)>>
                                \o rest.cols,
                       err  |-> rest.err]

\* self.interpolate(new_coords, newcoordname, 'nearest', ikey=ikey): the
\* data set afterwards, whether an array was returned (else None), the
\* array, the warnings logged and the exception raised
interpolate_ikey(self, new_coords, newcoordname, ikey, pref, empty_ok) ==
    LET none == Arr2(<<>>, 0)
    IN  IF ~(ndim(new_coords) = 2 /\ new_coords.shape[2] = 3)
           \/ changecoords_err(self, newcoordname) # "None"
           \/ ikey \notin keyset(self.data)
        THEN interpolate(self, new_coords, newcoordname, pref)
                 @@ [returned |-> FALSE, out |-> none]
        ELSE LET r == ikey_times(getitem(self.data, ikey),
                                 changecoords(self, newcoordname), new_coords,
                                 self.times.shape[1], pref, empty_ok, 1)
             IN  [self     |-> self,
                  warns    |-> <<>>,
                  err      |-> r.err,
                  returned |-> r.err = "None",
                  out      |-> IF r.err = "None"
                               THEN New_param(r.cols, new_coords.shape[1])
                               ELSE none]

\* gd[i].interpolate(new_coords, newcoordname, 'nearest', ikey=ikey)
DoInterpolateKey(i) ==
    /\ MayCall
    /\ \E new_coords \in NewCoords, newcoordname \in {"spherical", "ENU"},
       ikey \in {"ne", "optical", "alt"}, empty_ok \in BOOLEAN,
       pref \in Rankings(gd[i].dataloc.shape[1]) :
        LET r == interpolate_ikey(gd[i], new_coords, newcoordname, ikey, pref,
                                  empty_ok)
        IN  /\ gd' = [gd EXCEPT ![i] = r.self]
            /\ Called([op |-> "interpolate", self |-> i, new_coords |-> new_coords,
                       newcoordname |-> newcoordname, ikey |-> ikey,
                       warns |-> r.warns, returned |-> r.returned,
                       out |-> r.out, pre |-> gd[i]], r.err)

Next ==
    \/ \E i, j \in {1, 2} : i # j /\ DoAddTimes(i, j)
    \/ \E i, j \in {1, 2} : i # j /\ DoTimeslice(i, j)
    \/ \E i \in {1, 2} : DoInterpolate(i)
    \/ \E i \in {1, 2} : DoDatareducelocation(i)
    \/ \E i \in {1, 2} : DoChangedata(i)

Spec == Init /\ [][Next]_vars

\* the shape invariant of a data set: the rows of locations against the
\* location axis of every 2-axis field, the rows of timeIntervals against
\* the time axis of every field
ShapeInvariant(g) ==
    \A f \in 1..Len(g.data) :
        LET a == g.data[f].arr
        IN  CASE ndim(a) = 2 -> a.shape[1] = g.dataloc.shape[1]
                                /\ a.shape[2] = g.times.shape[1]
              [] ndim(a) = 3 -> a.shape[1] = g.times.shape[1]
              [] OTHER       -> FALSE

\* C1 as stated: after any sequence of add_times, timeslice, interpolate
\* (full), datareducelocation (no key) and changedata that all returned, on
\* data sets that satisfied the shape invariant at construction, the shape
\* invariant still holds.
C1_ShapeInvariantKept ==
    last.clean => \A i \in 1..Len(gd) : ShapeInvariant(gd[i])

(***************************************************************************)
(* The storage a data set shares with its time slice (specification        *)
(* SpecSlice).                                                             *)
(***************************************************************************)
\* the names of the mutable objects of a data set: its field arrays, its
\* three arrays and its description (a list of strings)
stores(g) == keyset(g.data) \cup {"dataloc", "sensorloc", "times", "expdesc"}

\* the objects of the tuple of copyinst that are the very objects of obj1:
\* data.copy() is a new dict of the same arrays and expdesc is handed over
\* as it is; dataloc, sensorloc and times are copied
copyinst_shared(obj1) == keyset(obj1.data) \cup {"expdesc"}

\* the objects a returned time slice shares with self: indexing with a list
\* makes a new array of every field
timeslice_shared(self) == copyinst_shared(self) \ keyset(self.data)

\* the object called name of data set g
store(g, name) ==
    CASE name = "dataloc"   -> g.dataloc
      [] name = "sensorloc" -> g.sensorloc
      [] name = "times"     -> g.times
      [] OTHER              -> getitem(g.data, name)

\* the object called name has a first element
writable(g, name) ==
    IF name = "expdesc" THEN Len(g.expdesc) > 0
    ELSE \A k \in 1..ndim(store(g, name)) : store(g, name).shape[k] > 0

\* data set g after obj[0,...] = y on its object called name
inplace(g, name, y) ==
    LET first(a) == [k \in 1..ndim(a) |-> 1]
    IN  CASE name = "expdesc"   -> [g EXCEPT !.expdesc[1] = "changed"]
          [] name = "dataloc"   -> [g EXCEPT !.dataloc = setat(@, first(@), y)]
          [] name = "sensorloc" -> [g EXCEPT !.sensorloc = setat(@, first(@), y)]
          [] name = "times"     -> [g EXCEPT !.times = setat(@, first(@), y)]
          [] OTHER              ->
                [g EXCEPT !.data = [i \in 1..Len(@) |->
                    IF @[i].name = name
                    THEN [@[i] EXCEPT !.arr = setat(@, first(@), y)]
                    ELSE @[i]]]

\* a data set whose description is a list of strings, and a second one made
\* of the same tuple
InitSlice ==
    /\ \E names \in {<<"ne">>, <<"ne", "optical">>}, t \in {onetime, twotimes},
          x \in Val :
          LET g == [mkgd(names, "Spherical", loc2, sens0, t, x)
                       EXCEPT !.expdesc = <<"desc">>]
          IN  gd = <<g, g>>
    /\ last = [op |-> "__init__"]

\* gd[2] = gd[1].timeslice(timelist, listtype)
SliceOf ==
    /\ last.op = "__init__"
    /\ \E listtype \in {"Array", "Time"} : \E timelist \in TimeLists(gd[1], listtype) :
        LET r == timeslice(gd[1], timelist, listtype)
        IN  /\ gd' = IF r.err = "None" THEN <<gd[1], r.out>> ELSE gd
            /\ last' = [op |-> "timeslice", timelist |-> timelist,
                        listtype |-> listtype, err |-> r.err, pre |-> gd,
                        shared |-> IF r.err = "None" THEN timeslice_shared(gd[1])
                                   ELSE {}]

\* store(gd[k], name)[0,...] = y, the first statement after gd[2] was
\* returned by timeslice: a shared object is the object of both data sets
SetItem(k, name) ==
    /\ last.op = "timeslice"
    /\ last.err = "None"
    /\ name \in stores(gd[k])
    /\ writable(gd[k], name)
    /\ \E y \in {0, 1} :
          /\ gd' = [i \in {1, 2} |->
                      IF i = k \/ name \in last.shared
                      THEN inplace(gd[i], name, y) ELSE gd[i]]
          /\ last' = [op |-> "setitem", target |-> k, name |-> name,
                      err |-> "None", pre |-> gd, shared |-> last.shared]

NextSlice ==
    \/ SliceOf
    \/ \E k \in {1, 2}, name \in {"ne", "optical", "dataloc", "sensorloc",
                                  "times", "expdesc"} : SetItem(k, name)

SpecSlice == InitSlice /\ [][NextSlice]_vars

\* C11 as stated: timeslice leaves the data set it is called on as it was,
\* and an in-place write to a field array, the locations, the sensor
\* location, the time intervals or the description of the slice leaves the
\* original unchanged, and a write to the original leaves the slice
\* unchanged, for index lists and for lists of times.
C11_SliceSharesNothing ==
    /\ last.op = "timeslice" => gd[1] = last.pre[1]
    /\ last.op = "setitem" => gd[3 - last.target] = last.pre[3 - last.target]

\* the arrays of the slice are its own: only the description is shared
C11_ArraysNotShared ==
    /\ last.op = "timeslice" => gd[1] = last.pre[1]
    /\ (last.op = "setitem" /\ last.name # "expdesc") =>
          gd[3 - last.target] = last.pre[3 - last.target]

(***************************************************************************)
(* The effect of interpolate on the data set, with and without a selector  *)
(* (specification SpecInterp).                                             *)
(***************************************************************************)
\* a 1-axis array of one value per location, a field of neither 2 nor 3 axes
flat1(nloc, x) == Arr1([l \in 1..nloc |-> x])

\* the fields of the data sets of SpecInterp: "ne" alone, with an image
\* stack, or with a 1-axis field before or after it
InterpData(nt, x) ==
    { mkdata(<<"ne">>, 2, nt, x),
      mkdata(<<"ne", "optical">>, 2, nt, x),
      mkdata(<<"ne">>, 2, nt, x) \o <<[name |-> "alt", arr |-> flat1(2, x)]>>,
      <<[name |-> "alt", arr |-> flat1(2, x)]>> \o mkdata(<<"ne">>, 2, nt, x) }

\* the first data set holds x everywhere but y at one place of field "ne"
InitInterp ==
    /\ \E t \in {onetime, twotimes}, x \in Val, y \in Val :
          \E d \in InterpData(t.shape[1], x) :
             gd = << [GeoData(d, "Spherical", loc2, sens0, t, "desc")
                         EXCEPT !.data = [i \in 1..Len(@) |->
                             IF @[i].name = "ne"
                             THEN [@[i] EXCEPT !.arr = setat(@, <<1, 1>>, y)]
                             ELSE @[i]]],
                     mkgd(<<"ne">>, "Spherical", loc2, sens0, onetime, 1) >>
    /\ last = [op |-> "__init__", n |-> 0, clean |-> TRUE]

\* the calls are made on the first data set
NextInterp ==
    \/ DoInterpolate(1)
    \/ DoInterpolateKey(1)

SpecInterp == InitInterp /\ [][NextInterp]_vars

\* the fields, the locations and the coordinate name of g are those of h
SameGrid(g, h) ==
    g.data = h.data /\ g.dataloc = h.dataloc /\ g.coordnames = h.coordnames

\* every field of g has the rows of new_coords, which are its locations,
\* and its coordinate name is newcoordname
Rewritten(g, new_coords, newcoordname) ==
    /\ \A f \in 1..Len(g.data) : g.data[f].arr.shape[1] = new_coords.shape[1]
    /\ g.dataloc = new_coords
    /\ g.coordnames = newcoordname

\* C12 as stated: a call of interpolate with a selector, whatever name it
\* holds, leaves the fields, the locations and the coordinate name as they
\* were and returns an array; a call without a selector that returns has
\* replaced every field by an array of numNewLocations rows, the locations
\* by the new ones and the coordinate name by the new one.
C12_SelectorReadOnlyElseRewrite ==
    last.op = "interpolate" =>
        /\ last.ikey # "None" =>
              /\ SameGrid(gd[last.self], last.pre)
              /\ last.err = "None" => last.returned
        /\ (last.ikey = "None" /\ last.err = "None") =>
              Rewritten(gd[last.self], last.new_coords, last.newcoordname)

\* the same with a selector that names a field of the data set
C12_FieldSelectorReadOnly ==
    last.op = "interpolate" =>
        /\ (last.ikey # "None" /\ last.ikey \in keyset(last.pre.data)) =>
              /\ SameGrid(gd[last.self], last.pre)
              /\ last.err = "None" => last.returned
        /\ (last.ikey = "None" /\ last.err = "None") =>
              Rewritten(gd[last.self], last.new_coords, last.newcoordname)

\* the time steps (1-based) of field arr at which every value is nan
AllNaNSteps(arr, Nt) ==
    {itime \in 1..Nt :
        /\ ndim(arr) \in {2, 3}
        /\ itime <= (IF ndim(arr) = 2 THEN arr.shape[2] ELSE arr.shape[1])
        /\ curparam_of(arr, itime) # <<>>
        /\ \A k \in 1..Len(curparam_of(arr, itime)) : isnan(curparam_of(arr, itime)[k])}

\* column itime of the (numNewLocations, numTimes) array new is all nan
NaNColumn(new, itime) ==
    /\ ndim(new) = 2
    /\ itime <= new.shape[2]
    /\ \A l \in 1..new.shape[1] : isnan(new.v[l][itime])

\* a warning was logged for field name at time step itime
Warned(name, itime) ==
    \E w \in 1..Len(last.warns) : last.warns[w] = <<name, itime - 1>>

\* the call was handed a table of new locations and the coordinate system
\* of the data set, and every field has 2 or 3 axes
WellFormedCall ==
    /\ last.op = "interpolate"
    /\ lower(last.pre.coordnames) = lower(last.newcoordname)
    /\ \A f \in 1..Len(last.pre.data) : ndim(last.pre.data[f].arr) \in {2, 3}

\* C13 as stated: in a call of interpolate, for every field and every time
\* step at which all the values of the field are nan, the output of that
\* time step is all nan and a warning is logged, and the call raises no
\* exception; without a selector for every field, with a selector for the
\* selected field.
C13_AllNaNStepWarnedAndFilled ==
    WellFormedCall =>
        LET pre == last.pre
            Nt  == pre.times.shape[1]
        IN  IF last.ikey \in keyset(pre.data)
            THEN ndim(getitem(pre.data, last.ikey)) = 2 =>
                    \A itime \in AllNaNSteps(getitem(pre.data, last.ikey), Nt) :
                        /\ last.err = "None"
                        /\ NaNColumn(last.out, itime)
                        /\ Warned(last.ikey, itime)
            ELSE last.err = "None" =>
                    \A f \in 1..Len(pre.data) :
                        \A itime \in AllNaNSteps(pre.data[f].arr, Nt) :
                            /\ NaNColumn(gd[last.self].data[f].arr, itime)
                            /\ Warned(pre.data[f].name, itime)

\* the same for the fields that are masked (all but "optical") in a call
\* that takes the path of all fields
C13_FullPathMaskedFields ==
    (WellFormedCall /\ last.ikey \notin keyset(last.pre.data) /\ last.err = "None") =>
        \A f \in 1..Len(last.pre.data) :
            last.pre.data[f].name # "optical" =>
                \A itime \in AllNaNSteps(last.pre.data[f].arr, last.pre.times.shape[1]) :
                    /\ NaNColumn(gd[last.self].data[f].arr, itime)
                    /\ Warned(last.pre.data[f].name, itime)

\* a call with a selector naming a field with an all-nan time step returned
C13_SelectorStepSeen ==
    /\ WellFormedCall
    /\ last.ikey \in keyset(last.pre.data)
    /\ last.err = "None"
    /\ AllNaNSteps(getitem(last.pre.data, last.ikey), last.pre.times.shape[1]) # {}

(***************************************************************************)
(* The reduction to a list of locations (specification SpecReduce).        *)
(***************************************************************************)
\* a location table in which the first row comes again as the third
locdup == Arr2(<< <<0, 0, 0>>, <<2, 0, 0>>, <<0, 0, 0>> >>, 3)

\* data sets whose field "ne" holds rows[l] at every time of location l
InitReduce ==
    /\ \E loc \in {loc2, locdup}, t \in {onetime, twotimes},
          names \in {<<"ne">>, <<"ne", "optical">>} :
          \E rows \in [1..loc.shape[1] -> {0, 1}] :
             LET g == [mkgd(names, "Spherical", loc, sens0, t, 0)
                          EXCEPT !.data[1].arr =
                              Arr2([l \in 1..loc.shape[1] |->
                                       [k \in 1..t.shape[1] |-> rows[l]]],
                                   t.shape[1])]
             IN  gd = <<g, g>>
    /\ last = [op |-> "__init__", n |-> 0, clean |-> TRUE]

NextReduce == DoDatareducelocation(1)

SpecReduce == InitReduce /\ [][NextReduce]_vars

\* the smallest 0-based index of a row of table dataloc equal to irow
FirstMatch(dataloc, irow) ==
    CHOOSE i \in matches(dataloc, irow) : \A j \in matches(dataloc, irow) : i <= j

\* C14: datareducelocation (called with the coordinate name of the data
\* set) takes, for each requested row in order, the smallest index of a row
\* of the locations that equals it exactly, and every field becomes its
\* rows at these indices; if a requested row has no equal row the call
\* raises IndexError and no field has been changed.
C14_FirstMatchOrIndexError ==
    (last.op = "datareducelocation"
        /\ lower(last.pre.coordnames) = lower(last.coordname)) =>
        LET pre == last.pre
            nc  == last.newcoords
        IN  IF \E n \in 1..nc.shape[1] : matches(pre.dataloc, nc.v[n]) = {}
            THEN last.err = "IndexError" /\ gd[last.self] = pre
            ELSE last.err = "None" =>
                    \A f \in 1..Len(pre.data) :
                        LET old == pre.data[f].arr
                            new == gd[last.self].data[f].arr
                        IN  /\ new.shape[1] = nc.shape[1]
                            /\ \A n \in 1..nc.shape[1] :
                                  new.v[n] = old.v[FirstMatch(pre.dataloc, nc.v[n]) + 1]

\* a reduction returned in which a requested row equals two rows of the
\* locations that hold different values of the first field
C14_Witness ==
    /\ last.op = "datareducelocation"
    /\ last.err = "None"
    /\ \E n \in 1..last.newcoords.shape[1] :
          \E i, j \in matches(last.pre.dataloc, last.newcoords.v[n]) :
              last.pre.data[1].arr.v[i + 1] # last.pre.data[1].arr.v[j + 1]

\* C15 as stated: a call of interpolate on the path of all fields that
\* raises an exception leaves every field, the locations and the coordinate
\* name of the data set exactly as they were before the call.
C15_FailedInterpolateChangesNothing ==
    (last.op = "interpolate" /\ last.ikey \notin keyset(last.pre.data)
        /\ last.err # "None") =>
        SameGrid(gd[last.self], last.pre)

(***************************************************************************)
(* The fields after changedata (specification Spec).                       *)
(***************************************************************************)
\* the fields of g but those called a or b are the fields of h but those
\* called a or b
OthersKept(g, h, a, b) ==
    SelectSeq(g.data, LAMBDA e : e.name \notin {a, b})
        = SelectSeq(h.data, LAMBDA e : e.name \notin {a, b})

\* what C16 says of a call of changedata that returned
ChangedAsSaid ==
    LET g   == gd[last.self]
        pre == last.pre
    IN  /\ last.newname \in keyset(g.data)
        /\ getitem(g.data, last.newname)
              = apply(last.func, getitem(pre.data, last.dataname))
        /\ last.dataname \notin keyset(g.data)
              <=> (last.rm_old /\ last.newname # last.dataname)
        /\ OthersKept(g, pre, last.dataname, last.newname)

\* C16 as stated: after a changedata(dataname, newname, func, params,
\* rm_old) that returned, the field newname is present and holds func of the
\* old field, also when newname is dataname and rm_old is true; the old
\* name is absent exactly when rm_old is true and newname differs from
\* dataname; no other field is changed.
C16_NewNamePresent ==
    (last.op = "changedata" /\ last.err = "None") => ChangedAsSaid

\* the same for the calls that keep the old field or give a new name
C16_NewNamePresentUnlessRemoved ==
    (last.op = "changedata" /\ last.err = "None"
        /\ (last.newname # last.dataname \/ ~last.rm_old)) => ChangedAsSaid

====
